---- MODULE Spec2Model ----
(***************************************************************************)
(* Model of the typed-field address book of oxica/CRM-python.  The         *)
(* repository holds two variants of the same core: src/crm.py (Record /    *)
(* AddressBook, the JSON API) and src/answer.py (Developer / AddressBook,  *)
(* the HTML service).  The variable `variant` selects which file's code a  *)
(* behaviour runs; every operator that differs between the files branches  *)
(* on it.                                                                  *)
(*                                                                         *)
(* Python strings are sequences of one-character strings.  A float is a    *)
(* decimal [m, k, nz] standing for m / 10^k (normalised, nz marks -0.0).   *)
(***************************************************************************)
EXTENDS Integers, Sequences, FiniteSets, TLC

VARIABLES
    variant,         \* "crm" (src/crm.py) or "answer" (src/answer.py)
    records,         \* AddressBook.records: insertion-ordered dict, a sequence of [id, fields]
    last_record_id,  \* AddressBook.last_record_id
    op,              \* the last operation called
    arg,             \* its arguments: NoArg but for the ones the operation takes
    ret,             \* what it returned: NoRet but for the part the operation returns
    err,             \* the exception it raised, "none" when it returned
    issued           \* the ids add returned, in order, since the Store was created,
                     \* cleared or loaded (a history of the calls, not program state)

vars == <<variant, records, last_record_id, op, arg, ret, err, issued>>

----------------------------------------------------------------------------
(* Bounds of the model *)

MaxId == 2        \* add is called while last_record_id < MaxId
MaxFields == 3    \* Record.add is called while the record has fewer fields

----------------------------------------------------------------------------
(* Strings and numbers *)

DigitChars == <<"0", "1", "2", "3", "4", "5", "6", "7", "8", "9">>

IsDigit(c) == \E i \in 1..10 : DigitChars[i] = c

DigitVal(c) == (CHOOSE i \in 1..10 : DigitChars[i] = c) - 1

AllDigits(s) == \A i \in 1..Len(s) : IsDigit(s[i])

RECURSIVE ParseDigits(_)
\* the value of a string of decimal digits ("" is 0)
ParseDigits(s) ==
    IF s = <<>> THEN 0
    ELSE 10 * ParseDigits(SubSeq(s, 1, Len(s) - 1)) + DigitVal(s[Len(s)])

RECURSIVE NatToStr(_)
NatToStr(n) ==
    IF n < 10 THEN <<DigitChars[n + 1]>>
    ELSE NatToStr(n \div 10) \o <<DigitChars[(n % 10) + 1]>>

\* str(n) for an int
IntToStr(n) == IF n < 0 THEN <<"-">> \o NatToStr(-n) ELSE NatToStr(n)

RECURSIVE Pow10(_)
Pow10(k) == IF k = 0 THEN 1 ELSE 10 * Pow10(k - 1)

RECURSIVE StripLeft(_)
StripLeft(s) == IF s # <<>> /\ s[1] = " " THEN StripLeft(Tail(s)) ELSE s

RECURSIVE StripRight(_)
StripRight(s) ==
    IF s # <<>> /\ s[Len(s)] = " " THEN StripRight(SubSeq(s, 1, Len(s) - 1)) ELSE s

\* str.strip()
Strip(s) == StripRight(StripLeft(s))

RECURSIVE RemoveSpaces(_)
\* str.replace(" ", "")
RemoveSpaces(s) ==
    IF s = <<>> THEN <<>>
    ELSE IF s[1] = " " THEN RemoveSpaces(Tail(s))
    ELSE <<s[1]>> \o RemoveSpaces(Tail(s))

\* `probe in text` for two str
IsSubstring(probe, text) ==
    \E i \in 0..(Len(text) - Len(probe)) :
        SubSeq(text, i + 1, i + Len(probe)) = probe

HasSign(s) == s # <<>> /\ s[1] \in {"+", "-"}

Unsigned(s) == IF HasSign(s) THEN Tail(s) ELSE s

\* int(str): surrounding blanks, an optional sign, decimal digits
IntOfStr(s) ==
    LET t == Strip(s)
        d == Unsigned(t)
    IN  IF d # <<>> /\ AllDigits(d)
        THEN [ok |-> TRUE,
              n  |-> IF t[1] = "-" THEN -ParseDigits(d) ELSE ParseDigits(d)]
        ELSE [ok |-> FALSE, n |-> 0]

RECURSIVE Normal(_, _)
\* m / 10^k with the trailing zeros of the fraction dropped
Normal(m, k) ==
    IF k > 0 /\ m % 10 = 0 THEN Normal(m \div 10, k - 1) ELSE [m |-> m, k |-> k]

Float(m, k, nz) ==
    LET n == Normal(m, k) IN [m |-> n.m, k |-> n.k, nz |-> nz /\ n.m = 0]

DotAt(s) == CHOOSE i \in 1..Len(s) : s[i] = "."

\* float(str): surrounding blanks, an optional sign, digits with at most one point
FloatOfStr(s) ==
    LET t    == Strip(s)
        d    == Unsigned(t)
        neg  == t # <<>> /\ t[1] = "-"
        dots == {i \in 1..Len(d) : d[i] = "."}
        ip   == IF dots = {} THEN d ELSE SubSeq(d, 1, DotAt(d) - 1)
        fp   == IF dots = {} THEN <<>> ELSE SubSeq(d, DotAt(d) + 1, Len(d))
        mag  == ParseDigits(ip \o fp)
    IN  IF Cardinality(dots) <= 1 /\ AllDigits(ip) /\ AllDigits(fp) /\ ip \o fp # <<>>
        THEN [ok |-> TRUE, v |-> Float(IF neg THEN -mag ELSE mag, Len(fp), neg)]
        ELSE [ok |-> FALSE, v |-> Float(0, 0, FALSE)]

\* float == float (-0.0 equals 0.0)
FloatEq(a, b) == a.m = b.m /\ a.k = b.k

FloatLess(a, b) == a.m * Pow10(b.k) < b.m * Pow10(a.k)

FloatAdd(a, b) ==
    LET k == IF a.k > b.k THEN a.k ELSE b.k
    IN  Float(a.m * Pow10(k - a.k) + b.m * Pow10(k - b.k), k, FALSE)

Abs(n) == IF n < 0 THEN -n ELSE n

RECURSIVE PadLeft(_, _)
PadLeft(s, n) == IF Len(s) >= n THEN s ELSE PadLeft(<<"0">> \o s, n)

\* str(float) and json's float encoding: repr, always with a fraction part
FloatToStr(v) ==
    LET mag  == Abs(v.m)
        sign == IF v.m < 0 \/ v.nz THEN <<"-">> ELSE <<>>
        ip   == NatToStr(mag \div Pow10(v.k))
        fp   == IF v.k = 0 THEN <<"0">> ELSE PadLeft(NatToStr(mag % Pow10(v.k)), v.k)
    IN  sign \o ip \o <<".">> \o fp

----------------------------------------------------------------------------
(* Values and fields *)

\* a value held by a field or carried by JSON: a str or a float
Str(s) == [t |-> "str", s |-> s, f |-> Float(0, 0, FALSE)]

Num(f) == [t |-> "num", s |-> <<>>, f |-> f]

\* field_description of every DataField subclass
FieldKinds ==
    {"General", "Name", "Surname", "Organization", "City", "Skill", "Phone", "Email", "Rate"}

REGISTERED_FIELDS ==
    IF variant = "crm" THEN FieldKinds
    ELSE {"Name", "City", "Skill", "Phone", "Rate"}

\* the object DataField.__init__ / PhoneField.__init__ leaves before validate runs;
\* value None is never observed, validate either sets it or the object is dropped.
\* obj names the object among the elements of the list that holds it: the index of
\* the first place of the list where this very object sits, -1 while it is in no list
NewField(kind) ==
    [kind |-> kind, value |-> Str(<<>>),
     country_code |-> <<>>, operator_code |-> <<>>, phone_number |-> <<>>,
     obj |-> -1]

\* PHONE_REGEX with the optional "+", country code and parentheses present (1) or not (0)
PhoneShape(v, p, c, l, r) ==
    LET a == p + 2 * c + l IN
    /\ Len(v) = a + 3 + r + 7
    /\ p = 1 => v[1] = "+"
    /\ AllDigits(SubSeq(v, p + 1, p + 2 * c))
    /\ l = 1 => v[a] = "("
    /\ v[a + 1] = "0"
    /\ AllDigits(SubSeq(v, a + 1, a + 3))
    /\ r = 1 => v[a + 4] = ")"
    /\ AllDigits(SubSeq(v, a + 3 + r + 1, a + 3 + r + 7))

PhoneShapes(v) ==
    {o \in {0, 1} \X {0, 1} \X {0, 1} \X {0, 1} : PhoneShape(v, o[1], o[2], o[3], o[4])}

\* the groups 1, 2, 3 of a match of shape o, and whether group 1 took part
ShapeGroups(v, o, a) ==
    [country     |-> SubSeq(v, o[1] + 1, o[1] + 2 * o[2]),
     has_country |-> o[2] = 1,
     operator    |-> SubSeq(v, a + 1, a + 3),
     phone       |-> SubSeq(v, a + 3 + o[4] + 1, a + 3 + o[4] + 7)]

ShapeStart(o) == o[1] + 2 * o[2] + o[3]

ShapeOf(shapes) == CHOOSE x \in shapes : TRUE

\* re.search(PHONE_REGEX, value).group(1, 2, 3); every part has a fixed width, so a
\* string has at most one shape
PhoneGroups(v, shapes) == ShapeGroups(v, ShapeOf(shapes), ShapeStart(ShapeOf(shapes)))

\* the four assignments that end PhoneField.validate
PhoneAssign(f, cc, g) ==
    [f EXCEPT !.country_code = cc,
              !.operator_code = g.operator,
              !.phone_number = g.phone,
              !.value = Str(<<"+">> \o cc \o g.operator \o g.phone)]

\* a one-digit default country code (not the code's)
CountryOfShort(g) == IF g.has_country THEN g.country ELSE <<"8">>

CountryOf(g) == IF g.has_country THEN g.country ELSE <<"3", "8">>

PhoneMatched(f, g) == [err |-> "none", field |-> PhoneAssign(f, CountryOf(g), g)]

\* a validate that stores the raw value before it finds it invalid (not the code's)
PhoneSearchedStoring(f, value, shapes) ==
    IF shapes = {} THEN [err |-> "IncorrectInput", field |-> [f EXCEPT !.value = Str(value)]]
    ELSE PhoneMatched(f, PhoneGroups(value, shapes))

PhoneSearched(f, value, shapes) ==
    IF shapes = {} THEN [err |-> "IncorrectInput", field |-> f]
    ELSE PhoneMatched(f, PhoneGroups(value, shapes))

\* the `$` that ends PHONE_REGEX also matches before a newline that ends the string
Chomp(v) == IF v # <<>> /\ v[Len(v)] = "\n" THEN SubSeq(v, 1, Len(v) - 1) ELSE v

PhoneChomped(f, v) == PhoneSearched(f, v, PhoneShapes(v))

PhoneStripped(f, value) == PhoneChomped(f, Chomp(value))

\* PhoneField.validate on the field object f: [err, field]; a value that is no str
\* has no replace method
PhoneValidate(f, raw) ==
    IF raw.t # "str" THEN [err |-> "AttributeError", field |-> f]
    ELSE PhoneStripped(f, RemoveSpaces(raw.s))

\* EMAIL_REGEX.match(value): [^@]+@[^@]+\.[^@]+ from the start of the string
EmailMatch(s) ==
    \E a \in 2..Len(s) :
        /\ s[a] = "@"
        /\ \A i \in 1..(a - 1) : s[i] # "@"
        /\ \E d \in (a + 2)..(Len(s) - 1) :
              /\ s[d] = "."
              /\ \A i \in (a + 1)..(d + 1) : s[i] # "@"

EmailValidate(f, raw) ==
    IF raw.t # "str" THEN [err |-> "TypeError", field |-> f]
    ELSE IF ~EmailMatch(raw.s) THEN [err |-> "IncorrectInput", field |-> f]
    ELSE [err |-> "none", field |-> [f EXCEPT !.value = raw]]

RateParsed(f, p) ==
    IF p.ok THEN [err |-> "none", field |-> [f EXCEPT !.value = Num(p.v)]]
    ELSE [err |-> "IncorrectInput", field |-> f]

\* RateField.validate: float(value) of a float or of a str
RateValidate(f, raw) ==
    IF raw.t = "num" THEN [err |-> "none", field |-> [f EXCEPT !.value = raw]]
    ELSE RateParsed(f, FloatOfStr(raw.s))

\* DataField.validate: the value as given
DataValidate(f, raw) == [err |-> "none", field |-> [f EXCEPT !.value = raw]]

\* field.validate(raw), dispatched on the field's class
Validate(f, raw) ==
    CASE f.kind = "Phone" -> PhoneValidate(f, raw)
      [] f.kind = "Email" -> EmailValidate(f, raw)
      [] f.kind = "Rate"  -> RateValidate(f, raw)
      [] OTHER            -> DataValidate(f, raw)

\* field_class(raw): [err, field]
Construct(kind, raw) == Validate(NewField(kind), raw)

\* field_decoder(field_dict) for {"field_name": ..., "value": ...}
field_decoder(field_dict) ==
    IF field_dict.field_name \notin REGISTERED_FIELDS
    THEN [err |-> "FieldDecodeError", field |-> NewField("General")]
    ELSE Construct(field_dict.field_name, field_dict.value)

\* DataField.to_dict / to_json
FieldToDict(f) == [field_name |-> f.kind, value |-> f.value]

\* json.dumps of a value: a JSON string, or a number written as repr(float)
JsonOfValue(v) ==
    IF v.t = "num" THEN [t |-> "num", s |-> FloatToStr(v.f)] ELSE [t |-> "str", s |-> v.s]

\* json.loads of a JSON string or number.  The numbers of this model are the ones
\* dumps writes, which carry a fraction part and so are read as float
ValueOfJson(j) == IF j.t = "num" THEN Num(FloatOfStr(j.s).v) ELSE Str(j.s)

RateEquals(f, p) == p.ok /\ FloatEq(p.v, f.value.f)

\* RateField.__contains__
RateContains(f, probe) ==
    IF variant = "crm" THEN RateEquals(f, FloatOfStr(probe))
    ELSE IsSubstring(probe, FloatToStr(f.value.f))

\* `probe in field` for a str probe
FieldContains(f, probe) ==
    IF f.kind = "Rate" THEN RateContains(f, probe)
    ELSE IsSubstring(probe, f.value.s)

----------------------------------------------------------------------------
(* Record (crm.py) / Developer (answer.py): a list of fields *)

\* an index or id handed in by the caller: an int or a str
IntArg(n) == [t |-> "int", n |-> n, s |-> <<>>]

StrArg(s) == [t |-> "str", n |-> 0, s |-> s]

\* int(x): [ok, n]; not ok is ValueError
ToInt(x) == IF x.t = "int" THEN [ok |-> TRUE, n |-> x.n] ELSE IntOfStr(x.s)

\* a list accepts index i when -len <= i < len; a negative i counts from the end
InRange(n, i) == -n <= i /\ i < n

Position(n, i) == IF i < 0 THEN n + i + 1 ELSE i + 1

\* the index of the first place of list that holds the object x (x is in the list)
First(list, x) == (CHOOSE p \in 1..Len(list) :
                        /\ list[p].obj = x.obj
                        /\ \A q \in 1..(p - 1) : list[q].obj # x.obj) - 1

\* the list with every object named again by the first place that holds it
Named(list) == [p \in 1..Len(list) |-> [list[p] EXCEPT !.obj = First(list, list[p])]]

\* a deletion that drops the last element whatever the index (not the code's)
PopLast(list, i) == SubSeq(list, 1, Len(list) - 1)

\* list.pop(i)
Pop(list, i) ==
    LET p == Position(Len(list), i)
    IN  SubSeq(list, 1, p - 1) \o SubSeq(list, p + 1, Len(list))

\* list[i] = x
SetItem(list, i, x) == [list EXCEPT ![Position(Len(list), i)] = x]

GetItem(list, i) == list[Position(Len(list), i)]

\* list.index(x): the first element identical or equal to x.  Two field objects
\* are equal only when identical: DataField defines no __eq__, and RateField.__eq__
\* of answer.py is False against another field (float(field) raises TypeError)
Index(list, x) == First(list, x)

Appended(new, field_item) ==
    [err |-> "none", fields |-> Named(new), ret |-> Index(new, field_item)]

\* Record.add
RecordAdd(fields, field_item) == Appended(Append(fields, field_item), field_item)

\* Record.replace under index_error_decorator: the index is used as given
RecordReplace(fields, index, field_item) ==
    IF index.t # "int" THEN [err |-> "TypeError", fields |-> fields]
    ELSE IF ~InRange(Len(fields), index.n) THEN [err |-> "IndexError", fields |-> fields]
    ELSE [err |-> "none", fields |-> Named(SetItem(fields, index.n, field_item))]

DeleteAt(fields, i) ==
    IF ~i.ok THEN [err |-> "IncorrectInput", fields |-> fields]
    ELSE IF ~InRange(Len(fields), i.n) THEN [err |-> "IndexError", fields |-> fields]
    ELSE [err |-> "none", fields |-> Named(Pop(fields, i.n))]

\* Record.delete under index_error_decorator
RecordDelete(fields, idx) == DeleteAt(fields, ToInt(idx))

\* field.validate works on the object: every place of the list that holds it shows
\* the outcome
Validated(fields, n, v) ==
    [err |-> v.err,
     fields |-> [p \in 1..Len(fields) |->
                    IF fields[p].obj = v.field.obj THEN v.field ELSE fields[p]]]

UpdateAt(fields, i, value) ==
    IF ~i.ok THEN [err |-> "IncorrectInput", fields |-> fields]
    ELSE IF ~InRange(Len(fields), i.n) THEN [err |-> "IndexError", fields |-> fields]
    ELSE Validated(fields, i.n, Validate(GetItem(fields, i.n), value))

\* Record.update under index_error_decorator
RecordUpdate(fields, field_idx, value) == UpdateAt(fields, ToInt(field_idx), value)

\* Record.field_search: the loop returns at the first field of that kind
field_search(fields, field_name, search_value) ==
    LET hits == {i \in 1..Len(fields) : fields[i].kind = field_name} IN
    IF hits = {} THEN FALSE
    ELSE FieldContains(fields[CHOOSE i \in hits : \A j \in hits : i <= j], search_value)

\* a disjunctive search: one criterion is enough (not the code's)
record_multiple_search_any(fields, search_items) ==
    \E n \in 1..Len(search_items) :
        field_search(fields, search_items[n][1], search_items[n][2])

\* Record.multiple_search(**search_items); search_items is a sequence of <<kind, probe>>
record_multiple_search(fields, search_items) ==
    \A n \in 1..Len(search_items) :
        field_search(fields, search_items[n][1], search_items[n][2])

\* Record.__contains__
RecordContains(fields, item) == \E i \in 1..Len(fields) : FieldContains(fields[i], item)

\* the value of the last Rate field (not the code's)
get_rate_last(fields) ==
    LET hits == {i \in 1..Len(fields) : fields[i].kind = "Rate"} IN
    IF hits = {} THEN <<>>
    ELSE <<fields[CHOOSE i \in hits : \A j \in hits : j <= i].value.f>>

\* Record.get_rate: <<value>> of the first Rate field, <<>> for None
get_rate(fields) ==
    LET hits == {i \in 1..Len(fields) : fields[i].kind = "Rate"} IN
    IF hits = {} THEN <<>>
    ELSE <<fields[CHOOSE i \in hits : \A j \in hits : i <= j].value.f>>

\* Record.to_dict / Developer.to_json (answer.py wraps the list in {"fields": ...})
RecordToDict(fields) == [i \in 1..Len(fields) |-> FieldToDict(fields[i])]

FromJsonStep(prev, d) ==
    IF prev.err # "none" THEN prev
    ELSE IF d.err # "none" THEN [err |-> d.err, fields |-> prev.fields]
    ELSE [err |-> "none", fields |-> RecordAdd(prev.fields, d.field).fields]

\* Record.from_json: decode and add field by field, the first failure propagates;
\* step[i] is the state of the loop after i fields
from_json(fields, field_list) ==
    LET step[i \in 0..Len(field_list)] ==
            IF i = 0 THEN [err |-> "none", fields |-> fields]
            ELSE FromJsonStep(step[i - 1], field_decoder(field_list[i]))
    IN  step[Len(field_list)]

----------------------------------------------------------------------------
(* AddressBook: records is a dict, kept here in insertion order *)

Ids(recs) == {recs[i].id : i \in 1..Len(recs)}

Where(recs, id) == CHOOSE i \in 1..Len(recs) : recs[i].id = id

\* self.records[id]
Lookup(recs, id) == recs[Where(recs, id)].fields

\* self.records[id] = fields: a present key keeps its place, a new one goes last
DictSet(recs, id, fields) ==
    IF id \in Ids(recs) THEN [recs EXCEPT ![Where(recs, id)].fields = fields]
    ELSE Append(recs, [id |-> id, fields |-> fields])

\* self.records.pop(id) of a present key
DictPop(recs, id) ==
    LET p == Where(recs, id) IN SubSeq(recs, 1, p - 1) \o SubSeq(recs, p + 1, Len(recs))

Max(S) == CHOOSE x \in S : \A y \in S : y <= x

\* an add that hands out the smallest id not in use (not the code's)
StoreAddReuse(recs, last, fields) ==
    LET id == CHOOSE n \in 0..Len(recs) :
                  n \notin Ids(recs) /\ \A m \in 0..(n - 1) : m \in Ids(recs)
    IN  [err |-> "none", records |-> DictSet(recs, id, fields), last |-> last + 1, ret |-> id]

\* AddressBook.add
StoreAdd(recs, last, fields) ==
    [err |-> "none", records |-> DictSet(recs, last, fields), last |-> last + 1, ret |-> last]

\* AddressBook.replace: `record_id not in self.records` compares the id as given,
\* and a str is never equal to an int key
StoreReplace(recs, last, record_id, fields) ==
    IF record_id.t # "int" \/ record_id.n \notin Ids(recs)
    THEN [err |-> "KeyError", records |-> recs, last |-> last]
    ELSE [err |-> "none", records |-> DictSet(recs, record_id.n, fields), last |-> last]

DeleteKey(recs, last, key) ==
    IF ~key.ok THEN [err |-> "IncorrectInput", records |-> recs, last |-> last]
    ELSE IF key.n \notin Ids(recs) THEN [err |-> "KeyError", records |-> recs, last |-> last]
    ELSE [err |-> "none", records |-> DictPop(recs, key.n), last |-> last]

\* AddressBook.delete under index_error_decorator
StoreDelete(recs, last, record_id) == DeleteKey(recs, last, ToInt(record_id))

\* AddressBook.clear (answer.py only)
StoreClear(recs, last) == [err |-> "none", records |-> <<>>, last |-> 0]

\* AddressBook.dumps: the JSON object, a sequence of members [key, fields]; json
\* writes an int key as its decimal string
dumps(recs) ==
    [i \in 1..Len(recs) |->
        [key    |-> IntToStr(recs[i].id),
         fields |-> [n \in 1..Len(recs[i].fields) |->
                        LET d == RecordToDict(recs[i].fields)[n]
                        IN  [field_name |-> d.field_name, value |-> JsonOfValue(d.value)]]]]

\* json.loads of such a JSON object (request.json in crm.py): the keys stay str
JsonLoads(doc) ==
    [i \in 1..Len(doc) |->
        [key    |-> doc[i].key,
         fields |-> [n \in 1..Len(doc[i].fields) |->
                        [field_name |-> doc[i].fields[n].field_name,
                         value      |-> ValueOfJson(doc[i].fields[n].value)]]]]

LoadsCrmStep(prev, r, key) ==
    IF prev.err # "none" THEN prev
    ELSE IF r.err # "none" THEN [prev EXCEPT !.err = r.err]
    ELSE IF ~key.ok THEN [prev EXCEPT !.err = "ValueError"]
    ELSE [prev EXCEPT !.records = DictSet(prev.records, key.n, r.fields)]

\* the loop of crm.py's loads: from_json, then int(record_id), then the store;
\* step[i] is the state of the loop after i members
LoadsCrm(recs, last, members) ==
    LET step[i \in 0..Len(members)] ==
            IF i = 0 THEN [err |-> "none", records |-> recs, last |-> last]
            ELSE LoadsCrmStep(step[i - 1], from_json(<<>>, members[i].fields),
                              IntOfStr(members[i].key))
    IN  step[Len(members)]

\* the line after the loop: max() of no keys is a ValueError
LoadsCrmLast(l) ==
    IF l.err # "none" THEN l
    ELSE IF l.records = <<>> THEN [l EXCEPT !.err = "ValueError"]
    ELSE [l EXCEPT !.last = Max(Ids(l.records)) + 1]

LoadsAnswerStep(prev, r) ==
    IF prev.err # "none" THEN prev
    ELSE IF r.err # "none" THEN [prev EXCEPT !.err = r.err]
    ELSE [err     |-> "none",
          records |-> StoreAdd(prev.records, prev.last, r.fields).records,
          last    |-> StoreAdd(prev.records, prev.last, r.fields).last]

\* the loop of answer.py's loads: from_json, then self.add
LoadsAnswer(recs, last, members) ==
    LET step[i \in 0..Len(members)] ==
            IF i = 0 THEN [err |-> "none", records |-> recs, last |-> last]
            ELSE LoadsAnswerStep(step[i - 1], from_json(<<>>, members[i].fields))
    IN  step[Len(members)]

\* AddressBook.loads of a parsed JSON object: crm.py clears the records, answer.py
\* clears them and resets last_developer_id
loads(recs, last, members) ==
    IF variant = "crm" THEN LoadsCrmLast(LoadsCrm(<<>>, last, members))
    ELSE LoadsAnswer(<<>>, 0, members)

\* AddressBook.multiple_search: the sub-dict of the matching records, in dict order
multiple_search(recs, search_items) ==
    LET Keep(r) == record_multiple_search(r.fields, search_items)
    IN  SelectSeq(recs, Keep)

\* AddressBook.str_search
str_search(recs, search_str) ==
    LET Keep(r) == RecordContains(r.fields, search_str)
    IN  SelectSeq(recs, Keep)

RECURSIVE Rates(_)
\* the list get_rate_stat collects: `if rate:` drops None and 0.0
Rates(recs) ==
    IF recs = <<>> THEN <<>>
    ELSE LET rate == get_rate(Head(recs).fields) IN
         (IF rate # <<>> /\ rate[1].m # 0 THEN rate ELSE <<>>) \o Rates(Tail(recs))

RECURSIVE FloatSum(_)
FloatSum(rates) ==
    IF rates = <<>> THEN Float(0, 0, FALSE)
    ELSE FloatAdd(FloatSum(SubSeq(rates, 1, Len(rates) - 1)), rates[Len(rates)])

\* min(rates), max(rates)
FloatMin(rates) ==
    rates[CHOOSE i \in 1..Len(rates) : \A j \in 1..Len(rates) : ~FloatLess(rates[j], rates[i])]

FloatMax(rates) ==
    rates[CHOOSE i \in 1..Len(rates) : \A j \in 1..Len(rates) : ~FloatLess(rates[i], rates[j])]

\* get_rate_stat.  None is <<>>, a number x is <<x>>; the mean is kept as the exact
\* quotient [sum, n] that statistics.mean rounds to a float; "total" is only a key
\* of answer.py's dict
get_rate_stat(recs) ==
    LET rates == Rates(recs) IN
    [mean  |-> IF rates = <<>> THEN <<>> ELSE <<[sum |-> FloatSum(rates), n |-> Len(rates)]>>,
     min   |-> IF rates = <<>> THEN <<>> ELSE <<FloatMin(rates)>>,
     max   |-> IF rates = <<>> THEN <<>> ELSE <<FloatMax(rates)>>,
     item_number |-> Len(rates),
     total |-> IF variant = "crm" THEN <<>> ELSE <<FloatSum(rates)>>]

----------------------------------------------------------------------------
(* What the callers hand in *)

sA == <<"a">>

sB == <<"b">>

sAB == <<"a", "b">>

s0 == <<"0">>

s1 == <<"1">>

s5 == <<"5">>

s50 == <<"5", "0">>

sPhone == <<"0", "5", "0", "1", "2", "3", "4", "5", "6", "7">>

sEmail == <<"a", "@", "b", ".", "a">>

RECURSIVE MakeRecord(_)
\* a record built field by field from <<kind, raw string>> pairs that all validate
MakeRecord(pairs) ==
    IF pairs = <<>> THEN <<>>
    ELSE RecordAdd(MakeRecord(SubSeq(pairs, 1, Len(pairs) - 1)),
                   Construct(pairs[Len(pairs)][1], Str(pairs[Len(pairs)][2])).field).fields

\* the records handed to AddressBook.add and AddressBook.replace
RecordInputs ==
    { MakeRecord(<<>>),
      MakeRecord(<< <<"Name", sAB>>, <<"Phone", sPhone>>, <<"Rate", s50>> >>),
      MakeRecord(<< <<"Rate", s0>>, <<"Rate", s5>> >>),
      MakeRecord(<< <<"Skill", sAB>>, <<"Skill", sB>> >>),
      MakeRecord(<< <<"Email", sEmail>>, <<"Rate", s5>> >>) }

\* the record ids handed to AddressBook.replace and AddressBook.delete
IdInputs == {IntArg(i) : i \in 0..MaxId} \cup {StrArg(s0), StrArg(sA)}

JStr(s) == [t |-> "str", s |-> s]

\* JSON objects handed to loads besides the Store's own dump: none, two members
\* out of id order, a second member with an unknown field name, an invalid phone
LoadInputs ==
    { <<>>,
      << [key |-> s1, fields |-> << [field_name |-> "Skill", value |-> JStr(sB)] >>],
         [key |-> s0, fields |-> <<>>] >>,
      << [key |-> s5, fields |-> << [field_name |-> "Name", value |-> JStr(sA)] >>],
         [key |-> s1, fields |-> << [field_name |-> "Nick", value |-> JStr(sA)] >>] >>,
      << [key |-> s0, fields |-> << [field_name |-> "Phone", value |-> JStr(s50)] >>] >> }

\* the keyword arguments of multiple_search
SearchInputs ==
    { <<>>,
      << <<"Skill", sA>> >>,
      << <<"Skill", sB>> >>,
      << <<"Rate", s5>> >>,
      << <<"Name", sA>>, <<"Rate", s50>> >>,
      << <<"Skill", sB>>, <<"Rate", s5>> >> }

\* the text handed to str_search
ProbeInputs == {sA, sB, s5, s50}

\* the field dicts handed to field_decoder
FieldInputs ==
    { [field_name |-> "Skill", value |-> Str(sAB)],
      [field_name |-> "Skill", value |-> Str(sB)],
      [field_name |-> "Rate",  value |-> Str(s50)],
      [field_name |-> "Rate",  value |-> Str(sA)],
      [field_name |-> "Phone", value |-> Str(s5)],
      [field_name |-> "Nick",  value |-> Str(sA)] }

\* the field indices handed to Record.replace, Record.delete and Record.update:
\* every index in range, the first ones out of range on both sides, and two str
IndexInputs ==
    {IntArg(i) : i \in {-(MaxFields + 1), -1} \cup 0..MaxFields}
        \cup {StrArg(s1), StrArg(sA)}

\* the raw values handed to Record.update
UpdateInputs == {Str(sB)}

\* the records Record.update is followed on, and the raw values handed to it: text
\* no Phone, Email or Rate accepts, a number, another phone, another email, a float
UpdateRecords ==
    { MakeRecord(<< <<"Phone", sPhone>>, <<"Rate", s50>> >>),
      MakeRecord(<< <<"Email", sEmail>>, <<"Skill", sAB>> >>) }

UpdateValues ==
    {Str(sB), Str(s5), Str(<<"0", "0">> \o sPhone), Str(sEmail \o sB), Num(Float(5, 0, FALSE))}

\* the kind names and probes handed to Record.field_search and `item in record`
KindInputs == {"Skill", "Rate"}

RecordProbeInputs == {sA, s5, s50, <<"5", "0", ".", "0", "0">>}

\* the raw values handed to PhoneField: an optional "+", country code, operator code
\* in optional parentheses, number, with spaces or a last character or not; a float
PhoneParts ==
    << {<<>>, <<"+">>},
       {<<>>, <<"0", "0">>, <<"1">>},
       {<<>>, <<"(">>},
       {<<"0", "5", "0">>, <<"1", "5", "0">>},
       {<<>>, <<")">>},
       {<<"1", "2", "3", "4", "5", "6", "7">>, <<"1", "2", "3", "4", "5", "6">>,
        <<"1", "2", "3", " ", "4", "5", " ", "6", "7">>},
       {<<>>, <<"\n">>, <<"x">>} >>

PhoneInputs ==
    {Str(a \o b \o c \o d \o e \o g \o h) :
        a \in PhoneParts[1], b \in PhoneParts[2], c \in PhoneParts[3], d \in PhoneParts[4],
        e \in PhoneParts[5], g \in PhoneParts[6], h \in PhoneParts[7]}
      \cup {Num(Float(5, 0, FALSE))}

\* the arguments of a call, by name
NoArg ==
    [rid        |-> 0,               \* the id in the route of a Record operation
     record_id  |-> IntArg(0),
     index      |-> IntArg(0),
     fields     |-> <<>>,            \* a record
     field_dict |-> [field_name |-> "", value |-> Str(<<>>)],
     value      |-> Str(<<>>),
     field_name |-> "",
     probe      |-> <<>>,
     doc        |-> <<>>,
     search_items |-> <<>>]

NoStat == [mean |-> <<>>, min |-> <<>>, max |-> <<>>, item_number |-> 0, total |-> <<>>]

\* what a call returns: an id or index n, a bool, a JSON object, a dict of records,
\* a statistics dict or a field
NoRet ==
    [n |-> -1, found |-> FALSE, doc |-> <<>>, recs |-> <<>>, stat |-> NoStat,
     decoded |-> [err |-> "none", field |-> NewField("")]]

----------------------------------------------------------------------------
(* The operations of the Store *)

Init ==
    /\ variant \in {"crm", "answer"}
    /\ records = <<>>
    /\ last_record_id = 0
    /\ op = "init"
    /\ arg = NoArg
    /\ ret = NoRet
    /\ err = "none"
    /\ issued = <<>>

\* the new state of the Store after a call that gave r
StoreStep(r) ==
    /\ records' = r.records
    /\ last_record_id' = r.last
    /\ err' = r.err

Added(r) ==
    /\ StoreStep(r)
    /\ ret' = [NoRet EXCEPT !.n = r.ret]
    /\ issued' = Append(issued, r.ret)

Add(fields) ==
    /\ last_record_id < MaxId
    /\ Added(StoreAdd(records, last_record_id, fields))
    /\ op' = "add"
    /\ arg' = [NoArg EXCEPT !.fields = fields]
    /\ UNCHANGED variant

Replace(record_id, fields) ==
    /\ StoreStep(StoreReplace(records, last_record_id, record_id, fields))
    /\ op' = "replace"
    /\ arg' = [NoArg EXCEPT !.record_id = record_id, !.fields = fields]
    /\ ret' = NoRet
    /\ UNCHANGED <<variant, issued>>

Delete(record_id) ==
    /\ StoreStep(StoreDelete(records, last_record_id, record_id))
    /\ op' = "delete"
    /\ arg' = [NoArg EXCEPT !.record_id = record_id]
    /\ ret' = NoRet
    /\ UNCHANGED <<variant, issued>>

Clear ==
    /\ variant = "answer"
    /\ StoreStep(StoreClear(records, last_record_id))
    /\ op' = "clear"
    /\ arg' = NoArg
    /\ ret' = NoRet
    /\ issued' = <<>>
    /\ UNCHANGED variant

Dumps ==
    /\ op' = "dumps"
    /\ arg' = NoArg
    /\ ret' = [NoRet EXCEPT !.doc = dumps(records)]
    /\ err' = "none"
    /\ UNCHANGED <<variant, records, last_record_id, issued>>

\* loads of the JSON object doc: parsed by the caller (crm.py) or by loads (answer.py)
Loads(doc) ==
    /\ StoreStep(loads(records, last_record_id, JsonLoads(doc)))
    /\ op' = "loads"
    /\ arg' = [NoArg EXCEPT !.doc = doc]
    /\ ret' = NoRet
    /\ issued' = <<>>
    /\ UNCHANGED variant

MultipleSearch(search_items) ==
    /\ op' = "multiple_search"
    /\ arg' = [NoArg EXCEPT !.search_items = search_items]
    /\ ret' = [NoRet EXCEPT !.recs = multiple_search(records, search_items)]
    /\ err' = "none"
    /\ UNCHANGED <<variant, records, last_record_id, issued>>

StrSearch(search_str) ==
    /\ op' = "str_search"
    /\ arg' = [NoArg EXCEPT !.probe = search_str]
    /\ ret' = [NoRet EXCEPT !.recs = str_search(records, search_str)]
    /\ err' = "none"
    /\ UNCHANGED <<variant, records, last_record_id, issued>>

RateStat ==
    /\ op' = "get_rate_stat"
    /\ arg' = NoArg
    /\ ret' = [NoRet EXCEPT !.stat = get_rate_stat(records)]
    /\ err' = "none"
    /\ UNCHANGED <<variant, records, last_record_id, issued>>

NextCrud ==
    \/ \E fields \in RecordInputs : Add(fields)
    \/ \E record_id \in IdInputs, fields \in RecordInputs : Replace(record_id, fields)
    \/ \E record_id \in IdInputs : Delete(record_id)

Next ==
    \/ NextCrud
    \/ Clear
    \/ Dumps
    \/ \E doc \in LoadInputs \cup {dumps(records)} : Loads(doc)
    \/ \E search_items \in SearchInputs : MultipleSearch(search_items)
    \/ \E search_str \in ProbeInputs : StrSearch(search_str)
    \/ RateStat

\* the Store under every operation
Spec == Init /\ [][Next]_vars

\* a fresh Store under add, replace and delete alone
SpecCrud == Init /\ [][NextCrud]_vars

----------------------------------------------------------------------------
(* The operations of a Record held by the Store (AB[record_id], then the call) *)

\* the Store after `AB.add(Record())`: one record without fields
InitRecord ==
    /\ variant \in {"crm", "answer"}
    /\ records = <<[id |-> 0, fields |-> <<>>]>>
    /\ last_record_id = 1
    /\ op = "add"
    /\ arg = NoArg
    /\ ret = [NoRet EXCEPT !.n = 0]
    /\ err = "none"
    /\ issued = <<0>>

\* the record after a call on it that gave r
RecordStep(record_id, r) ==
    /\ records' = DictSet(records, record_id, r.fields)
    /\ err' = r.err

Decoded(d) ==
    /\ ret' = [NoRet EXCEPT !.decoded = d]
    /\ err' = d.err

\* field_decoder alone: the field it builds, or the error it raises
Decode(field_dict) ==
    /\ op' = "field_decoder"
    /\ arg' = [NoArg EXCEPT !.field_dict = field_dict]
    /\ Decoded(field_decoder(field_dict))
    /\ UNCHANGED <<variant, records, last_record_id, issued>>

\* PhoneField(raw)
PhoneConstruct(raw) ==
    /\ op' = "phone"
    /\ arg' = [NoArg EXCEPT !.value = raw]
    /\ Decoded(Construct("Phone", raw))
    /\ UNCHANGED <<variant, records, last_record_id, issued>>

\* PhoneField(field.value) for the field the last PhoneField(raw) built
PhoneAgain ==
    /\ op = "phone"
    /\ err = "none"
    /\ op' = "phone_again"
    /\ arg' = [NoArg EXCEPT !.value = ret.decoded.field.value]
    /\ Decoded(Construct("Phone", ret.decoded.field.value))
    /\ UNCHANGED <<variant, records, last_record_id, issued>>

NextPhone ==
    \/ \E raw \in PhoneInputs : PhoneConstruct(raw)
    \/ PhoneAgain

\* Phone fields built from raw values, and built again from their own value
SpecPhone == Init /\ [][NextPhone]_vars

RecAdded(record_id, r) ==
    /\ RecordStep(record_id, r)
    /\ ret' = [NoRet EXCEPT !.n = r.ret]

AddDecoded(record_id, d) ==
    /\ d.err = "none"
    /\ RecAdded(record_id, RecordAdd(Lookup(records, record_id), d.field))

\* Record.add of the field decoded from field_dict
RecAdd(record_id, field_dict) ==
    /\ Len(Lookup(records, record_id)) < MaxFields
    /\ AddDecoded(record_id, field_decoder(field_dict))
    /\ op' = "rec_add"
    /\ arg' = [NoArg EXCEPT !.rid = record_id, !.field_dict = field_dict]
    /\ UNCHANGED <<variant, last_record_id, issued>>

\* Record.add of a field object the record already holds, record[i]
RecAddHeld(record_id, i) ==
    /\ Len(Lookup(records, record_id)) < MaxFields
    /\ i < Len(Lookup(records, record_id))
    /\ RecAdded(record_id, RecordAdd(Lookup(records, record_id),
                                     GetItem(Lookup(records, record_id), i)))
    /\ op' = "rec_add_held"
    /\ arg' = [NoArg EXCEPT !.rid = record_id, !.index = IntArg(i)]
    /\ UNCHANGED <<variant, last_record_id, issued>>

ReplaceDecoded(record_id, index, d) ==
    /\ d.err = "none"
    /\ RecordStep(record_id, RecordReplace(Lookup(records, record_id), index, d.field))

\* Record.replace with the field decoded from field_dict
RecReplace(record_id, index, field_dict) ==
    /\ ReplaceDecoded(record_id, index, field_decoder(field_dict))
    /\ op' = "rec_replace"
    /\ arg' = [NoArg EXCEPT !.rid = record_id, !.index = index, !.field_dict = field_dict]
    /\ ret' = NoRet
    /\ UNCHANGED <<variant, last_record_id, issued>>

RecDelete(record_id, idx) ==
    /\ RecordStep(record_id, RecordDelete(Lookup(records, record_id), idx))
    /\ op' = "rec_delete"
    /\ arg' = [NoArg EXCEPT !.rid = record_id, !.index = idx]
    /\ ret' = NoRet
    /\ UNCHANGED <<variant, last_record_id, issued>>

RecUpdate(record_id, field_idx, value) ==
    /\ RecordStep(record_id, RecordUpdate(Lookup(records, record_id), field_idx, value))
    /\ op' = "rec_update"
    /\ arg' = [NoArg EXCEPT !.rid = record_id, !.index = field_idx, !.value = value]
    /\ ret' = NoRet
    /\ UNCHANGED <<variant, last_record_id, issued>>

FieldSearch(record_id, field_name, search_value) ==
    /\ op' = "field_search"
    /\ arg' = [NoArg EXCEPT !.rid = record_id, !.field_name = field_name,
                             !.probe = search_value]
    /\ ret' = [NoRet EXCEPT
                !.found = field_search(Lookup(records, record_id), field_name, search_value)]
    /\ err' = "none"
    /\ UNCHANGED <<variant, records, last_record_id, issued>>

\* Record.__contains__: `item in record`
RecContains(record_id, item) ==
    /\ op' = "rec_contains"
    /\ arg' = [NoArg EXCEPT !.rid = record_id, !.probe = item]
    /\ ret' = [NoRet EXCEPT !.found = RecordContains(Lookup(records, record_id), item)]
    /\ err' = "none"
    /\ UNCHANGED <<variant, records, last_record_id, issued>>

\* an address book after add of a record
InitUpdate ==
    /\ variant \in {"crm", "answer"}
    /\ \E fields \in UpdateRecords : records = <<[id |-> 0, fields |-> fields]>>
    /\ last_record_id = 1
    /\ op = "add"
    /\ arg = NoArg
    /\ ret = [NoRet EXCEPT !.n = 0]
    /\ err = "none"
    /\ issued = <<0>>

NextUpdate ==
    \/ \E record_id \in Ids(records), i \in 0..(MaxFields - 1) : RecAddHeld(record_id, i)
    \/ \E record_id \in Ids(records), idx \in IndexInputs, value \in UpdateValues :
            RecUpdate(record_id, idx, value)

\* one stored record under Record.update, some of its fields held twice
SpecUpdate == InitUpdate /\ [][NextUpdate]_vars

NextRecord ==
    \/ \E field_dict \in FieldInputs : Decode(field_dict)
    \/ \E record_id \in Ids(records), field_dict \in FieldInputs : RecAdd(record_id, field_dict)
    \/ \E record_id \in Ids(records), i \in 0..(MaxFields - 1) : RecAddHeld(record_id, i)
    \/ \E record_id \in Ids(records), index \in IndexInputs, field_dict \in FieldInputs :
            RecReplace(record_id, index, field_dict)
    \/ \E record_id \in Ids(records), idx \in IndexInputs : RecDelete(record_id, idx)
    \/ \E record_id \in Ids(records), idx \in IndexInputs, value \in UpdateInputs :
            RecUpdate(record_id, idx, value)
    \/ \E record_id \in Ids(records), field_name \in KindInputs,
          search_value \in RecordProbeInputs :
            FieldSearch(record_id, field_name, search_value)
    \/ \E record_id \in Ids(records), item \in RecordProbeInputs : RecContains(record_id, item)

\* one stored record under the operations of Record
SpecRecord == InitRecord /\ [][NextRecord]_vars

----------------------------------------------------------------------------
(* Properties *)

\* whether the id x, an int or the str of one, names a stored record
Present(x, recs) == ToInt(x).ok /\ ToInt(x).n \in Ids(recs)

\* the position of the first Rate field of a record, 0 when it has none
FirstRate(fields) ==
    IF \E i \in 1..Len(fields) : fields[i].kind = "Rate"
    THEN CHOOSE i \in 1..Len(fields) :
            /\ fields[i].kind = "Rate"
            /\ \A j \in 1..(i - 1) : fields[j].kind # "Rate"
    ELSE 0

\* C1: on a fresh Store under add, replace and delete, the first add returns 0 and
\* every later add returns an id above all ids returned before (so a freed id is
\* never returned again); replace and delete leave last_record_id alone, so that
\* it always equals the number of adds made.
C1_AddIdsIncrease ==
    /\ issued # <<>> => issued[1] = 0
    /\ \A i, j \in 1..Len(issued) : i < j => issued[i] < issued[j]
    /\ op = "add" => ret.n = issued[Len(issued)]
    /\ last_record_id = Len(issued)

\* an add that returned 1 although id 0 had been freed by a delete
C1_Witness ==
    /\ op = "add"
    /\ ret.n = 1
    /\ 0 \notin Ids(records)

\* C2: serialize, deserialize of that output, serialize again succeeds and gives
\* the first output again, for every Store built by add, replace and delete of
\* validly constructed records (the empty Store and Stores with id gaps included).
C2_RoundTripIdentical ==
    /\ loads(records, last_record_id, JsonLoads(dumps(records))).err = "none"
    /\ dumps(loads(records, last_record_id, JsonLoads(dumps(records))).records)
            = dumps(records)

\* C3: field_search(kind, probe) is true exactly when some field of that kind in
\* the record contains the probe, whichever position it has.
C3_FieldSearchAnyField ==
    op = "field_search" =>
        ret.found = \E i \in 1..Len(Lookup(records, arg.rid)) :
                      /\ Lookup(records, arg.rid)[i].kind = arg.field_name
                      /\ FieldContains(Lookup(records, arg.rid)[i], arg.probe)

\* the stored records that satisfy every <<kind, probe>> of search_items
Matching(recs, search_items) ==
    {i \in 1..Len(recs) :
        \A n \in 1..Len(search_items) :
            field_search(recs[i].fields, search_items[n][1], search_items[n][2])}

\* C4: AddressBook.multiple_search returns exactly the stored records for which
\* field_search holds for every criterion, under their own ids, each once (all
\* records for no criteria), and leaves records and last_record_id as they were.
C4_MultipleSearchConjunctive ==
    [][op' = "multiple_search" =>
        /\ {ret'.recs[i] : i \in 1..Len(ret'.recs)}
                = {records[i] : i \in Matching(records, arg'.search_items)}
        /\ Len(ret'.recs) = Cardinality(Matching(records, arg'.search_items))
        /\ arg'.search_items = <<>> => ret'.recs = records
        /\ records' = records
        /\ last_record_id' = last_record_id]_vars

\* a search on two criteria that kept one of two stored records
C4_Witness ==
    /\ op = "multiple_search"
    /\ Len(arg.search_items) = 2
    /\ Len(records) = 2
    /\ Len(ret.recs) = 1

\* whether index x, an int or a str, is non-numeric or outside 0..n-1
NonNumeric(x) == ~ToInt(x).ok

OutOfRange(x, n) == ToInt(x).ok /\ ToInt(x).n \notin 0..(n - 1)

\* C5: Record.replace, delete and update with an index outside 0..len-1 (negative
\* ones included) fail with IndexError, with a non-numeric index fail with
\* IncorrectInput, and leave the fields as they were.
C5_BadIndexRejected ==
    [][op' \in {"rec_replace", "rec_delete", "rec_update"} =>
        /\ OutOfRange(arg'.index, Len(Lookup(records, arg'.rid))) =>
                err' = "IndexError" /\ records' = records
        /\ NonNumeric(arg'.index) =>
                err' = "IncorrectInput" /\ records' = records]_vars

\* C6: AddressBook.replace and delete fail with KeyError exactly when the id, given
\* as an int or as its str, names no stored record; delete with a non-numeric id
\* fails with IncorrectInput; a failing call changes nothing.
C6_AbsentIdRejected ==
    [][/\ op' = "replace" =>
            err' = IF Present(arg'.record_id, records) THEN "none" ELSE "KeyError"
       /\ op' = "delete" =>
            err' = IF ~ToInt(arg'.record_id).ok THEN "IncorrectInput"
                   ELSE IF Present(arg'.record_id, records) THEN "none" ELSE "KeyError"
       /\ (op' \in {"replace", "delete"} /\ err' # "none") =>
            records' = records /\ last_record_id' = last_record_id]_vars

\* what a field holds, whichever object it is
Content(f) == [f EXCEPT !.obj = 0]

\* C7: Record.delete(i) with 0 <= i < n succeeds and leaves n-1 fields: those
\* below i where they were, those above i one place down, all unchanged.
C7_DeleteShiftsDown ==
    [][(op' = "rec_delete" /\ ToInt(arg'.index).ok
            /\ ToInt(arg'.index).n \in 0..(Len(Lookup(records, arg'.rid)) - 1)) =>
        LET old == Lookup(records, arg'.rid)
            new == Lookup(records', arg'.rid)
            i   == ToInt(arg'.index).n + 1
        IN  /\ err' = "none"
            /\ Len(new) = Len(old) - 1
            /\ \A j \in 1..(i - 1) : Content(new[j]) = Content(old[j])
            /\ \A j \in (i + 1)..Len(old) : Content(new[j - 1]) = Content(old[j])]_vars

\* index 0 deleted from a record of MaxFields fields, of two kinds at least
C7_Witness ==
    /\ op = "rec_delete"
    /\ err = "none"
    /\ arg.index = IntArg(0)
    /\ Len(Lookup(records, arg.rid)) = MaxFields - 1
    /\ \E i, j \in 1..Len(Lookup(records, arg.rid)) :
            Lookup(records, arg.rid)[i].kind # Lookup(records, arg.rid)[j].kind

\* C11: Record.add appends: the fields already there stay at their indices, and
\* the index returned is the new length minus one, also when the field object
\* added is one the record already holds.
C11_AddReturnsLastIndex ==
    [][op' \in {"rec_add", "rec_add_held"} =>
        LET old == Lookup(records, arg'.rid)
            new == Lookup(records', arg'.rid)
        IN  /\ Len(new) = Len(old) + 1
            /\ \A j \in 1..Len(old) : Content(new[j]) = Content(old[j])
            /\ ret'.n = Len(new) - 1]_vars

\* C12: a Phone field that was built holds "+", a country code of two digits (38
\* when the raw value has none), an operator code of three digits that starts with
\* 0 and a number of seven digits; a Phone field built from that value is built
\* without error and is the same field.
C12_PhoneNormalIdempotent ==
    /\ (op = "phone" /\ err = "none") =>
            LET f == ret.decoded.field IN
            /\ f.value.t = "str"
            /\ f.value.s = <<"+">> \o f.country_code \o f.operator_code \o f.phone_number
            /\ Len(f.country_code) = 2 /\ AllDigits(f.country_code)
            /\ Len(f.operator_code) = 3 /\ AllDigits(f.operator_code)
            /\ f.operator_code[1] = "0"
            /\ Len(f.phone_number) = 7 /\ AllDigits(f.phone_number)
            /\ Construct("Phone", f.value) = [err |-> "none", field |-> f]
    /\ op = "phone_again" => err = "none" /\ ret.decoded.field.value = arg.value

\* a value without country code, with spaces and parentheses, built and built again
C12_Witness ==
    /\ op = "phone_again"
    /\ err = "none"
    /\ ret.decoded.field.country_code = <<"3", "8">>
    /\ ret.decoded.field.value.s = <<"+", "3", "8">> \o sPhone

\* C13: in every state the Store reaches under add, replace, delete, clear and
\* loads, failing loads included, last_record_id is above the id of every stored
\* record, so that the next add takes an id no record has.
C13_NextIdAboveIds == \A id \in Ids(records) : id < last_record_id

\* C14: Record.update(i, raw) with 0 <= i < len keeps the length of the record;
\* when it fails, with IncorrectInput or otherwise, the record is as it was, value
\* and phone parts of the field included; when it succeeds the field at i keeps its kind and its
\* place, apart from the value only the parts of a Phone change, and every other
\* field object is as it was (a place holding the very object at i shows the same
\* field).
C14_UpdateAtomic ==
    [][(op' = "rec_update" /\ ToInt(arg'.index).ok
            /\ ToInt(arg'.index).n \in 0..(Len(Lookup(records, arg'.rid)) - 1)) =>
        LET old == Lookup(records, arg'.rid)
            new == Lookup(records', arg'.rid)
            p   == ToInt(arg'.index).n + 1
        IN  /\ Len(new) = Len(old)
            /\ err' # "none" => new = old
            /\ err' = "none" =>
                    /\ new[p].kind = old[p].kind
                    /\ new[p].obj = old[p].obj
                    /\ old[p].kind # "Phone" => new[p] = [old[p] EXCEPT !.value = new[p].value]
                    /\ \A q \in 1..Len(old) :
                            IF old[q].obj = old[p].obj THEN new[q] = new[p]
                            ELSE new[q] = old[q]]_vars

\* an update of a Phone field that failed, and one that changed it
C14_Witness ==
    /\ op = "rec_update"
    /\ err = "IncorrectInput"
    /\ arg.index = IntArg(0)
    /\ Len(Lookup(records, arg.rid)) > 1
    /\ Lookup(records, arg.rid)[1].kind = "Phone"
    /\ Lookup(records, arg.rid)[1].country_code = <<"0", "0">>

\* C8: after loads of a non-empty dump last_record_id is one past the largest id
\* stored; loads of an empty dump raises nothing, leaves no records and leaves
\* last_record_id as it was.
C8_LoadsSetsNextId ==
    [][op' = "loads" =>
        /\ (arg'.doc # <<>> /\ err' = "none") =>
                last_record_id' = Max(Ids(records')) + 1
        /\ arg'.doc = <<>> =>
                err' = "none" /\ records' = <<>> /\ last_record_id' = last_record_id]_vars

\* the one Rate field of a record
TheRate(fields) == fields[FirstRate(fields)]

\* whether the str probe is a number equal to the float v
ProbeEquals(probe, v) ==
    /\ FloatOfStr(probe).ok
    /\ FloatOfStr(probe).v.m * Pow10(v.k) = v.m * Pow10(FloatOfStr(probe).v.k)

\* C9: a Rate field contains a probe exactly when the probe parses to a number
\* equal to its value (never by being part of the value's text), and a probe that
\* is no number gives false.  Stated for field_search on a record with one Rate.
C9_RateContainsIsEquality ==
    (op = "field_search" /\ arg.field_name = "Rate"
        /\ Cardinality({i \in 1..Len(Lookup(records, arg.rid)) :
                            Lookup(records, arg.rid)[i].kind = "Rate"}) = 1) =>
        (ret.found <=> ProbeEquals(arg.probe, TheRate(Lookup(records, arg.rid)).value.f))

\* the records that count for the statistics: the first Rate field is not zero
Contributing(recs) ==
    {i \in 1..Len(recs) :
        /\ FirstRate(recs[i].fields) # 0
        /\ recs[i].fields[FirstRate(recs[i].fields)].value.f.m # 0}

RateOf(recs, i) == recs[i].fields[FirstRate(recs[i].fields)].value.f

RECURSIVE SumOf(_, _)
SumOf(recs, S) ==
    IF S = {} THEN Float(0, 0, FALSE)
    ELSE FloatAdd(RateOf(recs, Max(S)), SumOf(recs, S \ {Max(S)}))

\* C10: get_rate_stat counts, sums and takes min, max and mean = sum / count over
\* exactly the records whose first Rate field is not zero; with no such record
\* mean, min and max are None, the count is 0 and the total (answer.py) is 0.
C10_StatOverNonZeroRates ==
    op = "get_rate_stat" =>
        LET S == Contributing(records) IN
        /\ ret.stat.item_number = Cardinality(S)
        /\ S = {} =>
            /\ ret.stat.mean = <<>> /\ ret.stat.min = <<>> /\ ret.stat.max = <<>>
            /\ ret.stat.total = IF variant = "crm" THEN <<>> ELSE <<Float(0, 0, FALSE)>>
        /\ S # {} =>
            /\ ret.stat.mean = <<[sum |-> SumOf(records, S), n |-> Cardinality(S)]>>
            /\ \E i \in S : ret.stat.min = <<RateOf(records, i)>>
            /\ \E i \in S : ret.stat.max = <<RateOf(records, i)>>
            /\ \A i \in S : ~FloatLess(RateOf(records, i), ret.stat.min[1])
            /\ \A i \in S : ~FloatLess(ret.stat.max[1], RateOf(records, i))
            /\ ret.stat.total = IF variant = "crm" THEN <<>> ELSE <<SumOf(records, S)>>

\* statistics over two records, one of them with a first Rate of 0 before a Rate
\* of 5, which counted only the other
C10_Witness ==
    /\ op = "get_rate_stat"
    /\ Len(records) = 2
    /\ ret.stat.item_number = 1
    /\ \E i \in 1..2 :
        /\ FirstRate(records[i].fields) # 0
        /\ records[i].fields[FirstRate(records[i].fields)].value.f.m = 0
        /\ Len(records[i].fields) > FirstRate(records[i].fields)

====
